---- MODULE Spec2Model ----
(***************************************************************************)
(* The chat route of arcana.ai: POST /api/chat/[chatId]                    *)
(* (src/app/api/chat/[chatId]/route.ts).                                   *)
(*                                                                         *)
(* Every request is one run of the async handler POST.  A step of the      *)
(* model is either the synchronous stretch of the handler between two      *)
(* awaits, or the settling of one promise the handler has issued (a store  *)
(* or service call completing or throwing), or the deadline timer firing.  *)
(* A text is a sequence of one-character strings; the literal chunks of a  *)
(* template string are kept as single elements.                            *)
(***************************************************************************)
EXTENDS Naturals, Sequences, FiniteSets

\* ---------------------------------------------------------------- bounds
\* Number of requests that may be in flight together.
NumReqs == 2
\* Longest text the generation service returns.
MaxGenLen == 2
\* Longest text handed to the similarity scorer.
MaxSimLen == 5
\* Most turns in the message table the companion lookup is run on.
MaxTurns == 12

\* ------------------------------------------------------- program constants
\* take: 10 in the companion lookup
Take == 10

Reqs == 1..NumReqs

\* ------------------------------------------------------------------ texts
NL == "\n"
SP == " "
Chars == {"a", SP, NL}

RECURSIVE TextsUpTo(_)
TextsUpTo(n) ==
    IF n = 0 THEN {<< >>}
    ELSE LET shorter == TextsUpTo(n - 1)
         IN  shorter \cup {Append(t, c) : t \in {s \in shorter : Len(s) = n - 1}, c \in Chars}

\* What replicate.run may resolve to (String(modelResponse)).
GenTexts == TextsUpTo(MaxGenLen)

\* The text taken whole, newlines and all.
FirstLineWhole(s) == s

\* String.prototype.split("\n")[0]: the text before the first newline.
RECURSIVE FirstLine(_)
FirstLine(s) ==
    IF s = << >> \/ Head(s) = NL THEN << >>
    ELSE <<Head(s)>> \o FirstLine(Tail(s))

IsSpace(c) == c \in {SP, NL}

RECURSIVE TrimStart(_)
TrimStart(s) ==
    IF s # << >> /\ IsSpace(Head(s)) THEN TrimStart(Tail(s)) ELSE s

RECURSIVE TrimEnd(_)
TrimEnd(s) ==
    IF s # << >> /\ IsSpace(s[Len(s)]) THEN TrimEnd(SubSeq(s, 1, Len(s) - 1)) ELSE s

\* String.prototype.trim()
Trim(s) == TrimEnd(TrimStart(s))

\* Array.prototype.reverse()
Reverse(s) == [i \in 1..Len(s) |-> s[Len(s) + 1 - i]]

\* Array.prototype.join(sep) over an array of texts
RECURSIVE Join(_, _)
Join(ts, sep) ==
    IF ts = << >> THEN << >>
    ELSE IF Len(ts) = 1 THEN ts[1]
    ELSE ts[1] \o sep \o Join(Tail(ts), sep)

\* s.includes(sub)
Contains(s, sub) ==
    \E i \in 1..(Len(s) + 1) :
        /\ i + Len(sub) - 1 <= Len(s)
        /\ SubSeq(s, i, i + Len(sub) - 1) = sub

\* ------------------------------------------------------------ environment
\* Callers: an identity with id and firstName, or none.
Users == {"u1"}
NoUser == "anonymous"
\* The companions of the database, and the ids a request may name.
CompanionRows ==
    {[id |-> "c1", name |-> <<"Ada">>, instructions |-> <<"Be brief.">>,
      seed |-> <<"Human: hi", NL, NL, "Ada: hello">>]}
ChatIds == {"c1", "c404"}
\* The prompts of the request bodies.
Prompts == {<<"h", "i">>}
\* What vectorSearch may return.
DocResults == {<< >>, <<[pageContent |-> <<"lore-1">>], [pageContent |-> <<"lore-2">>]>>}
ModelName == "meta/meta-llama-3-8b-instruct"

\* ----------------------------------------------------------------- state
VARIABLES
    pc,               \* where the handler of each request stands
    timer,            \* the deadline timer of the request (timeoutId)
    aborted,          \* controller.signal.aborted
    body,             \* the request body: "json" or "malformed"
    user,             \* currentUser(): a user id or NoUser
    chatId,           \* params.chatId
    prompt,           \* the prompt of the body
    rateLimitResult,  \* promise of ratelimit(...)
    companion,        \* promise of prismadb.companion.findUnique(...)
    memoryManager,    \* promise of MemoryManager.getInstance()
    messagePromise,   \* promise of prismadb.message.create(...) (user turn)
    records,          \* promise of memoryManager.readLatestHistory(...)
    similarDocs,      \* promise of memoryManager.vectorSearch(...)
    seedPromise,      \* promise of memoryManager.seedChatHistory(...)
    modelResponse,    \* promise of replicate.run(...)
    genPrompt,        \* input.prompt handed to replicate.run
    finalResponse,    \* String(modelResponse).split("\n")[0]
    historyWrite,     \* promise of memoryManager.writeToHistory(...)
    systemWrite,      \* promise of prismadb.companion.update(...) (system turn)
    status,           \* status of the response returned, 0 while none
    respBody,         \* body of the response returned
    messages,         \* the message table, in createdAt order
    history,          \* the history store: ConversationKey -> entries
    historyAtStart,   \* observer: length of the request's history stream when it started
    scorer,           \* one call of analyzeMessageSimilarity: its arguments and result
    lookup            \* one companion lookup on a message table, and the transcript made of it

vars == <<pc, timer, aborted, body, user, chatId, prompt, rateLimitResult, companion,
          memoryManager, messagePromise, records, similarDocs, seedPromise,
          modelResponse, genPrompt, finalResponse, historyWrite, systemWrite,
          status, respBody, messages, history, historyAtStart, scorer, lookup>>

\* ---------------------------------------------------------------- promises
NotIssued == [st |-> "none", val |-> << >>]
Pending == [st |-> "pending", val |-> << >>]
Rejected == [st |-> "rejected", val |-> << >>]
Fulfilled(v) == [st |-> "fulfilled", val |-> v]

IsPending(p) == p.st = "pending"
IsFulfilled(p) == p.st = "fulfilled"
IsRejected(p) == p.st = "rejected"
IsIssued(p) == p.st # "none"

\* Promise.all: rejects as soon as one member rejects, resolves when all have.
AllRejects(ps) == \E i \in 1..Len(ps) : IsRejected(ps[i])
AllResolves(ps) == \A i \in 1..Len(ps) : IsFulfilled(ps[i])

\* ------------------------------------------------------------- the stores
\* prismadb.companion.findUnique({ where: { id } }): the row, or null.
FindCompanion(id) ==
    IF \E c \in CompanionRows : c.id = id
    THEN [null |-> FALSE, row |-> CHOOSE c \in CompanionRows : c.id = id]
    ELSE [null |-> TRUE]

IsNull(v) == v.null

\* include: { messages: { where: { userId }, orderBy: { createdAt: "desc" }, take: 10 } }
RECURSIVE TurnsOf(_, _, _)
TurnsOf(table, cid, uid) ==
    IF table = << >> THEN << >>
    ELSE LET rest == TurnsOf(Tail(table), cid, uid)
             m == Head(table)
         IN  IF m.companionId = cid /\ m.userId = uid THEN <<m>> \o rest ELSE rest

RecentTurns(table, cid, uid) ==
    LET desc == Reverse(TurnsOf(table, cid, uid))
    IN  SubSeq(desc, 1, IF Len(desc) < Take THEN Len(desc) ELSE Take)

\* companionKey of lines 101-105
CompanionKey(cid, uid) == [companionName |-> cid, userId |-> uid, modelName |-> ModelName]
Keys == {CompanionKey(c.id, u) : c \in CompanionRows, u \in Users}

\* The key of request r (defined once its companion is loaded).
KeyOf(r) == CompanionKey(companion[r].val.row.id, user[r])

\* memoryManager.readLatestHistory(key): the lines stored for the key.
ReadLatestHistory(key) == history[key]
\* memoryManager.seedChatHistory(seed, "\n\n", key): an unconditional write of
\* the entry built from the seed.
SeedChatHistory(seed, key) == [history EXCEPT ![key] = Append(@, seed)]
\* memoryManager.writeToHistory(entry, key): append.
WriteToHistory(entry, key) == [history EXCEPT ![key] = Append(@, entry)]

\* ------------------------------------------------- the handler's pure parts
\* lines 118-121: the transcript, oldest turn first.
TurnLine(m, c) == (IF m.role = "user" THEN <<"User">> ELSE c.name) \o <<": ">> \o m.content
\* The turn lines joined in the order they were loaded, newest first.
MessageHistoryNewestFirst(recent, c) ==
    Join([i \in 1..Len(recent) |-> TurnLine(recent[i], c)], <<NL>>)
MessageHistory(recent, c) ==
    Join(Reverse([i \in 1..Len(recent) |-> TurnLine(recent[i], c)]), <<NL>>)

\* lines 123-125
RelevantHistory(docs) ==
    IF Len(docs) # 0
    THEN Join([i \in 1..Len(docs) |-> docs[i].pageContent], <<NL>>)
    ELSE << >>

\* lines 138-144: the template string handed to replicate.run
PromptTemplate(c, p, messageHistory, relevantHistory) ==
    <<"<|system|>", NL, "You are ">> \o c.name \o <<". Focus on: ">> \o p \o <<NL>>
    \o c.instructions \o <<NL, "Recent context:", NL>>
    \o messageHistory \o <<NL, "Current question: ">> \o p \o <<NL, "<|assistant|>">>

\* The seed written when the read returned lines.
NeedsSeedWhenStored(recs) == Len(recs) > 0
\* The seed never written.
NeedsSeedNever(recs) == FALSE

\* Seeding on every request, whatever the history read returned.
NeedsSeedAlways(recs) == TRUE
\* line 113: records.length === 0
NeedsSeed(recs) == Len(recs) = 0

\* The length check off by one: length > 0.
ShouldPersistNonEmpty(final) == Len(final) > 0
\* line 154: finalResponse?.length > 1
ShouldPersist(final) == Len(final) > 1

\* line 157: the history entry
HistoryEntry(p, final) == <<"User: ">> \o p \o <<NL>> \o Trim(final)

\* lines 162-166: the system turn
SystemTurn(final, uid, cid) ==
    [content |-> Trim(final), role |-> "system", userId |-> uid, companionId |-> cid]

\* lines 85-90: the user turn
UserTurn(p, uid, cid) ==
    [content |-> p, role |-> "user", userId |-> uid, companionId |-> cid]

\* clearTimeout(timeoutId): cancels a timer that has not fired yet.
ClearTimeout(t) == IF t = "pending" THEN "cleared" ELSE t

\* ------------------------------------------------- the similarity scorer
\* Characters of the texts the scorer is run on: a letter in both cases and
\* the separator of split(" ").
SimChars == {"a", "A", SP}

RECURSIVE SimTextsUpTo(_)
SimTextsUpTo(n) ==
    IF n = 0 THEN {<< >>}
    ELSE LET shorter == SimTextsUpTo(n - 1)
         IN  shorter \cup {Append(t, c) : t \in {s \in shorter : Len(s) = n - 1}, c \in SimChars}

SimTexts == SimTextsUpTo(MaxSimLen)

\* String.prototype.toLowerCase()
ToLowerCase(s) == [i \in 1..Len(s) |-> IF s[i] = "A" THEN "a" ELSE s[i]]

\* String.prototype.split(" "): the pieces between single spaces, empty
\* pieces included ("".split(" ") is [""]).
RECURSIVE Split(_)
Split(s) ==
    IF \A i \in 1..Len(s) : s[i] # SP THEN <<s>>
    ELSE LET i == CHOOSE j \in 1..Len(s) : s[j] = SP /\ \A k \in 1..(j - 1) : s[k] # SP
         IN  <<SubSeq(s, 1, i - 1)>> \o Split(SubSeq(s, i + 1, Len(s)))

\* .filter(word => word.length > 0)
NonEmptyWord(w) == Len(w) > 0
Words(s) == SelectSeq(Split(ToLowerCase(s)), NonEmptyWord)

\* Map.get(word) || 0 and Map.set(word, n); a Map is a function on its keys.
EmptyMap == [w \in {} |-> 0]
MapGet(map, w) == IF w \in DOMAIN map THEN map[w] ELSE 0
MapSet(map, w, n) == [x \in DOMAIN map \cup {w} |-> IF x = w THEN n ELSE map[x]]

\* lines 19-25: one set per word, in array order.
RECURSIVE createWordMapFrom(_, _)
createWordMapFrom(wordMap, words) ==
    IF words = << >> THEN wordMap
    ELSE createWordMapFrom(MapSet(wordMap, Head(words), MapGet(wordMap, Head(words)) + 1),
                           Tail(words))

createWordMap(words) == createWordMapFrom(EmptyMap, words)

\* Math.max with Math.min in its place.
MathMaxSmaller(a, b) == IF a < b THEN a ELSE b

MathMin(a, b) == IF a < b THEN a ELSE b
MathMax(a, b) == IF a > b THEN a ELSE b

\* lines 36-41: msgWordMap.forEach adding to commonWords.
RECURSIVE CommonWords(_, _, _)
CommonWords(keys, msgWordMap, promptWordMap) ==
    IF keys = {} THEN 0
    ELSE LET word == CHOOSE w \in keys : TRUE
             rest == CommonWords(keys \ {word}, msgWordMap, promptWordMap)
         IN  IF word \in DOMAIN promptWordMap
             THEN rest + MathMin(msgWordMap[word], MapGet(promptWordMap, word))
             ELSE rest

\* lines 27-44.  The quotient of line 43 is NaN when both word lists are
\* empty, and NaN > 0.6 is false; otherwise c / m > 0.6 is 10 * c > 6 * m.
analyzeMessageSimilarity(msg, prmpt) ==
    IF msg = << >> THEN FALSE
    ELSE LET msgWords == Words(msg)
             promptWords == Words(prmpt)
             msgWordMap == createWordMap(msgWords)
             promptWordMap == createWordMap(promptWords)
             commonWords == CommonWords(DOMAIN msgWordMap, msgWordMap, promptWordMap)
             longest == MathMax(Len(msgWords), Len(promptWords))
         IN  IF longest = 0 THEN FALSE ELSE 10 * commonWords > 6 * longest

\* ------------------------------------------------------------------- Init
\* No request has entered the handler yet.
NoRequestYet ==
    /\ pc = [r \in Reqs |-> "idle"]
    /\ timer = [r \in Reqs |-> "unset"]
    /\ aborted = [r \in Reqs |-> FALSE]
    /\ body = [r \in Reqs |-> "json"]
    /\ user = [r \in Reqs |-> NoUser]
    /\ chatId = [r \in Reqs |-> "c1"]
    /\ prompt = [r \in Reqs |-> << >>]
    /\ rateLimitResult = [r \in Reqs |-> NotIssued]
    /\ companion = [r \in Reqs |-> NotIssued]
    /\ memoryManager = [r \in Reqs |-> NotIssued]
    /\ messagePromise = [r \in Reqs |-> NotIssued]
    /\ records = [r \in Reqs |-> NotIssued]
    /\ similarDocs = [r \in Reqs |-> NotIssued]
    /\ seedPromise = [r \in Reqs |-> NotIssued]
    /\ modelResponse = [r \in Reqs |-> NotIssued]
    /\ genPrompt = [r \in Reqs |-> << >>]
    /\ finalResponse = [r \in Reqs |-> << >>]
    /\ historyWrite = [r \in Reqs |-> NotIssued]
    /\ systemWrite = [r \in Reqs |-> NotIssued]
    /\ status = [r \in Reqs |-> 0]
    /\ respBody = [r \in Reqs |-> << >>]
    /\ historyAtStart = [r \in Reqs |-> 0]

\* No call of a pure part on its own.
NoScorerCall == [msg |-> << >>, prompt |-> << >>, called |-> FALSE, result |-> FALSE]
NoLookup == [table |-> << >>, looked |-> FALSE, recent |-> << >>, transcript |-> << >>]

\* The stores of a fresh deployment.
Init ==
    /\ NoRequestYet
    /\ messages = << >>
    /\ history = [k \in Keys |-> << >>]
    /\ scorer = NoScorerCall
    /\ lookup = NoLookup

\* Stores as earlier, finished requests of u1 with c1 leave them: untouched; a
\* user turn and the seed (the reply was trivial); a whole exchange.
PriorReply == <<"a", "a">>
PriorStores ==
    LET c == CHOOSE row \in CompanionRows : row.id = "c1"
        p == CHOOSE q \in Prompts : TRUE
    IN  { [messages |-> << >>, lines |-> << >>],
          [messages |-> <<UserTurn(p, "u1", c.id)>>, lines |-> <<c.seed>>],
          [messages |-> <<UserTurn(p, "u1", c.id), SystemTurn(PriorReply, "u1", c.id)>>,
           lines |-> <<c.seed, HistoryEntry(p, PriorReply)>>] }

\* One request arriving on stores that earlier requests have left.
SoloInit ==
    /\ NoRequestYet
    /\ \E s \in PriorStores :
        /\ messages = s.messages
        /\ history = [k \in Keys |-> s.lines]
    /\ scorer = NoScorerCall
    /\ lookup = NoLookup

\* ---------------------------------------------------------- exits of POST
inputs == <<body, user, chatId, prompt, historyAtStart>>
loading == <<rateLimitResult, companion, memoryManager>>
composing == <<records, similarDocs>>
generating == <<modelResponse, genPrompt, finalResponse>>
persisting == <<historyWrite, systemWrite>>
stores == <<messages, history>>
\* The variables of the pure parts run on their own (the handler leaves them).
pure == <<scorer, lookup>>

\* return new NextResponse(text, { status }) / new StreamingTextResponse(...):
\* the response leaves; nothing touches the timer.
Return(r, code, text) ==
    /\ pc' = [pc EXCEPT ![r] = "done"]
    /\ status' = [status EXCEPT ![r] = code]
    /\ respBody' = [respBody EXCEPT ![r] = text]
    /\ UNCHANGED <<timer, aborted>>

\* lines 181-185: the catch block.
Catch(r) ==
    /\ timer' = [timer EXCEPT ![r] = ClearTimeout(@)]
    /\ pc' = [pc EXCEPT ![r] = "done"]
    /\ status' = [status EXCEPT ![r] = 500]
    /\ respBody' = [respBody EXCEPT ![r] = <<"Internal Error">>]
    /\ UNCHANGED aborted

\* ---------------------------------------------------------------- actions
\* lines 46-48: the handler is entered; the controller is made and the
\* deadline timer armed.
Start(r) ==
    /\ pc[r] = "idle"
    /\ IF r = 1 THEN TRUE ELSE pc[r - 1] # "idle"    \* requests are numbered as they arrive
    /\ \E b \in {"json", "malformed"}, u \in Users \cup {NoUser}, c \in ChatIds, p \in Prompts :
        /\ body' = [body EXCEPT ![r] = b]
        /\ user' = [user EXCEPT ![r] = u]
        /\ chatId' = [chatId EXCEPT ![r] = c]
        /\ prompt' = [prompt EXCEPT ![r] = p]
        /\ historyAtStart' = [historyAtStart EXCEPT ![r] =
               IF u \in Users /\ ~IsNull(FindCompanion(c))
               THEN Len(history[CompanionKey(c, u)]) ELSE 0]
    /\ pc' = [pc EXCEPT ![r] = "admitting"]
    /\ timer' = [timer EXCEPT ![r] = "pending"]
    /\ UNCHANGED <<aborted, pure, loading, messagePromise, composing, seedPromise, generating,
                   persisting, status, respBody, stores>>

\* line 48: the timer's callback, () => controller.abort().
TimerFire(r) ==
    /\ timer[r] = "pending"
    /\ timer' = [timer EXCEPT ![r] = "fired"]
    /\ aborted' = [aborted EXCEPT ![r] = TRUE]
    /\ UNCHANGED <<pc, inputs, pure, loading, messagePromise, composing, seedPromise, generating,
                   persisting, status, respBody, stores>>

\* lines 51-73: the body is parsed, the caller identified, the three loads issued.
Admit(r) ==
    /\ pc[r] = "admitting"
    /\ \/ /\ body[r] = "malformed"
          /\ Catch(r)
          /\ UNCHANGED loading
       \/ /\ body[r] = "json"
          /\ user[r] = NoUser
          /\ Return(r, 401, <<"Unauthorized">>)
          /\ UNCHANGED loading
       \/ /\ body[r] = "json"
          /\ user[r] # NoUser
          /\ rateLimitResult' = [rateLimitResult EXCEPT ![r] = Pending]
          /\ companion' = [companion EXCEPT ![r] = Pending]
          /\ memoryManager' = [memoryManager EXCEPT ![r] = Pending]
          /\ pc' = [pc EXCEPT ![r] = "loading"]
          /\ UNCHANGED <<timer, aborted, status, respBody>>
    /\ UNCHANGED <<inputs, pure, messagePromise, composing, seedPromise, generating, persisting, stores>>

\* line 61: ratelimit(...) settles.
RateLimitSettle(r) ==
    /\ IsPending(rateLimitResult[r])
    /\ \E out \in {Fulfilled([success |-> TRUE]), Fulfilled([success |-> FALSE]), Rejected} :
        rateLimitResult' = [rateLimitResult EXCEPT ![r] = out]
    /\ UNCHANGED <<pc, timer, aborted, inputs, pure, companion, memoryManager, messagePromise,
                   composing, seedPromise, generating, persisting, status, respBody, stores>>

\* lines 62-71: the companion lookup settles, with the caller's latest turns.
CompanionSettle(r) ==
    /\ IsPending(companion[r])
    /\ \/ LET found == FindCompanion(chatId[r])
          IN  companion' = [companion EXCEPT ![r] =
                  Fulfilled(IF IsNull(found) THEN found
                            ELSE [null |-> FALSE, row |-> found.row,
                                  messages |-> RecentTurns(messages, chatId[r], user[r])])]
       \/ companion' = [companion EXCEPT ![r] = Rejected]
    /\ UNCHANGED <<pc, timer, aborted, inputs, pure, rateLimitResult, memoryManager, messagePromise,
                   composing, seedPromise, generating, persisting, status, respBody, stores>>

\* line 72: MemoryManager.getInstance() settles.
GetInstanceSettle(r) ==
    /\ IsPending(memoryManager[r])
    /\ \E out \in {Fulfilled(<<"MemoryManager">>), Rejected} :
        memoryManager' = [memoryManager EXCEPT ![r] = out]
    /\ UNCHANGED <<pc, timer, aborted, inputs, pure, rateLimitResult, companion, messagePromise,
                   composing, seedPromise, generating, persisting, status, respBody, stores>>

\* The rate-limit gate left out.
RateLimitedNever(res) == FALSE
\* The rate-limit gate with its condition inverted.
RateLimitedInverted(res) == res.success
\* line 75: !rateLimitResult.success
RateLimited(res) == ~res.success

\* line 79: !companion
CompanionMissing(c) == IsNull(c)

\* lines 60-73 with 181-185: Promise.all of the loads rejects.
LoadingRejected(r) ==
    /\ pc[r] = "loading"
    /\ AllRejects(<<rateLimitResult[r], companion[r], memoryManager[r]>>)
    /\ Catch(r)
    /\ UNCHANGED <<inputs, pure, loading, messagePromise, composing, seedPromise, generating,
                   persisting, stores>>

\* lines 60-110: Promise.all of the loads resolves; the gates; the user turn
\* and the two memory reads are issued.
LoadingResolved(r) ==
    /\ pc[r] = "loading"
    /\ AllResolves(<<rateLimitResult[r], companion[r], memoryManager[r]>>)
    /\ \/ /\ RateLimited(rateLimitResult[r].val)
          /\ Return(r, 429, <<"Rate limit exceeded">>)
          /\ UNCHANGED <<messagePromise, composing>>
       \/ /\ ~RateLimited(rateLimitResult[r].val)
          /\ CompanionMissing(companion[r].val)
          /\ Return(r, 404, <<"Companion not found">>)
          /\ UNCHANGED <<messagePromise, composing>>
       \/ /\ ~RateLimited(rateLimitResult[r].val)
          /\ ~CompanionMissing(companion[r].val)
          /\ messagePromise' = [messagePromise EXCEPT ![r] = Pending]
          /\ records' = [records EXCEPT ![r] = Pending]
          /\ similarDocs' = [similarDocs EXCEPT ![r] = Pending]
          /\ pc' = [pc EXCEPT ![r] = "composing"]
          /\ UNCHANGED <<timer, aborted, status, respBody>>
    /\ UNCHANGED <<inputs, pure, loading, seedPromise, generating, persisting, stores>>

\* lines 84-91: prismadb.message.create(...) settles.
MessageCreateSettle(r) ==
    /\ IsPending(messagePromise[r])
    /\ \/ /\ messagePromise' = [messagePromise EXCEPT ![r] = Fulfilled(<<"created">>)]
          /\ messages' = Append(messages, UserTurn(prompt[r], user[r], companion[r].val.row.id))
       \/ /\ messagePromise' = [messagePromise EXCEPT ![r] = Rejected]
          /\ UNCHANGED messages
    /\ UNCHANGED <<pc, timer, aborted, inputs, pure, loading, composing, seedPromise, generating,
                   persisting, status, respBody, history>>

\* line 108: readLatestHistory settles.
ReadHistorySettle(r) ==
    /\ IsPending(records[r])
    /\ \E out \in {Fulfilled(ReadLatestHistory(KeyOf(r))), Rejected} :
        records' = [records EXCEPT ![r] = out]
    /\ UNCHANGED <<pc, timer, aborted, inputs, pure, loading, messagePromise, similarDocs,
                   seedPromise, generating, persisting, status, respBody, stores>>

\* line 109: vectorSearch settles.
VectorSearchSettle(r) ==
    /\ IsPending(similarDocs[r])
    /\ \E out \in {Fulfilled(d) : d \in DocResults} \cup {Rejected} :
        similarDocs' = [similarDocs EXCEPT ![r] = out]
    /\ UNCHANGED <<pc, timer, aborted, inputs, pure, loading, messagePromise, records,
                   seedPromise, generating, persisting, status, respBody, stores>>

\* lines 107-110 with 181-185: Promise.all of the memory reads rejects.
ComposingRejected(r) ==
    /\ pc[r] = "composing"
    /\ AllRejects(<<records[r], similarDocs[r]>>)
    /\ Catch(r)
    /\ UNCHANGED <<inputs, pure, loading, messagePromise, composing, seedPromise, generating,
                   persisting, stores>>

\* lines 107-110: await Promise.all([readLatestHistory, vectorSearch]) resolves.
Composed(r) == AllResolves(<<records[r], similarDocs[r]>>)

\* lines 107-133: Promise.all of the memory reads resolves; seeding is issued
\* when the history read is empty, else the handler goes on to await the user turn.
ComposingResolved(r) ==
    /\ pc[r] = "composing"
    /\ Composed(r)
    /\ \/ /\ NeedsSeed(records[r].val)
          /\ seedPromise' = [seedPromise EXCEPT ![r] = Pending]
          /\ pc' = [pc EXCEPT ![r] = "seeding"]
       \/ /\ ~NeedsSeed(records[r].val)
          /\ pc' = [pc EXCEPT ![r] = "awaitMessage"]
          /\ UNCHANGED seedPromise
    /\ UNCHANGED <<timer, aborted, inputs, pure, loading, messagePromise, composing, generating,
                   persisting, status, respBody, stores>>

\* line 114 (with 181-185): seedChatHistory settles and the handler resumes.
SeedSettle(r) ==
    /\ pc[r] = "seeding"
    /\ IsPending(seedPromise[r])
    /\ \/ /\ seedPromise' = [seedPromise EXCEPT ![r] = Fulfilled(<<"seeded">>)]
          /\ history' = SeedChatHistory(companion[r].val.row.seed, KeyOf(r))
          /\ pc' = [pc EXCEPT ![r] = "awaitMessage"]
          /\ UNCHANGED <<timer, aborted, status, respBody>>
       \/ /\ seedPromise' = [seedPromise EXCEPT ![r] = Rejected]
          /\ Catch(r)
          /\ UNCHANGED history
    /\ UNCHANGED <<inputs, pure, loading, messagePromise, composing, generating, persisting, messages>>

\* The user turn not awaited: the handler goes on while the write is in flight.
UserTurnNotAwaited(r) == ~IsRejected(messagePromise[r])
\* line 133: await messagePromise resolves.
UserTurnWritten(r) == IsFulfilled(messagePromise[r])

\* lines 133-150 (with 181-185): await messagePromise; then replicate.run is
\* called with the prompt.  No signal of the controller is handed to it.
AwaitMessage(r) ==
    /\ pc[r] = "awaitMessage"
    /\ \/ /\ UserTurnWritten(r)
          /\ modelResponse' = [modelResponse EXCEPT ![r] = Pending]
          /\ genPrompt' = [genPrompt EXCEPT ![r] =
                 PromptTemplate(companion[r].val.row, prompt[r],
                                MessageHistory(companion[r].val.messages, companion[r].val.row),
                                RelevantHistory(similarDocs[r].val))]
          /\ pc' = [pc EXCEPT ![r] = "generating"]
          /\ UNCHANGED <<timer, aborted, status, respBody, finalResponse>>
       \/ /\ IsRejected(messagePromise[r])
          /\ Catch(r)
          /\ UNCHANGED generating
    /\ UNCHANGED <<inputs, pure, loading, messagePromise, composing, seedPromise, persisting, stores>>

\* A failed generation compensated by deleting the newest turn of the table.
GenerationSettleRollback(r) ==
    /\ pc[r] = "generating"
    /\ IsPending(modelResponse[r])
    /\ \/ /\ \E t \in GenTexts :
               /\ modelResponse' = [modelResponse EXCEPT ![r] = Fulfilled(t)]
               /\ finalResponse' = [finalResponse EXCEPT ![r] = FirstLine(t)]
               /\ \/ /\ Len(FirstLine(t)) > 1
                     /\ historyWrite' = [historyWrite EXCEPT ![r] = Pending]
                     /\ systemWrite' = [systemWrite EXCEPT ![r] = Pending]
                     /\ pc' = [pc EXCEPT ![r] = "persisting"]
                     /\ UNCHANGED <<timer, aborted, status, respBody>>
                  \/ /\ Len(FirstLine(t)) <= 1
                     /\ Return(r, 200, FirstLine(t))
                     /\ UNCHANGED persisting
          /\ UNCHANGED stores
       \/ /\ modelResponse' = [modelResponse EXCEPT ![r] = Rejected]
          /\ Catch(r)
          /\ messages' = SubSeq(messages, 1, Len(messages) - 1)
          /\ UNCHANGED <<finalResponse, persisting, history>>
    /\ UNCHANGED <<inputs, pure, loading, messagePromise, composing, seedPromise, genPrompt>>

\* lines 136-180 (with 181-185): replicate.run settles; the first line is
\* taken; the two writes are issued, or the response leaves at once.
GenerationSettle(r) ==
    /\ pc[r] = "generating"
    /\ IsPending(modelResponse[r])
    /\ \/ \E t \in GenTexts :
            /\ modelResponse' = [modelResponse EXCEPT ![r] = Fulfilled(t)]
            /\ finalResponse' = [finalResponse EXCEPT ![r] = FirstLine(t)]
            /\ \/ /\ ShouldPersist(FirstLine(t))
                  /\ historyWrite' = [historyWrite EXCEPT ![r] = Pending]
                  /\ systemWrite' = [systemWrite EXCEPT ![r] = Pending]
                  /\ pc' = [pc EXCEPT ![r] = "persisting"]
                  /\ UNCHANGED <<timer, aborted, status, respBody>>
               \/ /\ ~ShouldPersist(FirstLine(t))
                  /\ Return(r, 200, FirstLine(t))
                  /\ UNCHANGED persisting
       \/ /\ modelResponse' = [modelResponse EXCEPT ![r] = Rejected]
          /\ Catch(r)
          /\ UNCHANGED <<finalResponse, persisting>>
    /\ UNCHANGED <<inputs, pure, loading, messagePromise, composing, seedPromise, genPrompt, stores>>

\* line 157: writeToHistory settles.
HistoryWriteSettle(r) ==
    /\ IsPending(historyWrite[r])
    /\ \/ /\ historyWrite' = [historyWrite EXCEPT ![r] = Fulfilled(<<"written">>)]
          /\ history' = WriteToHistory(HistoryEntry(prompt[r], finalResponse[r]), KeyOf(r))
       \/ /\ historyWrite' = [historyWrite EXCEPT ![r] = Rejected]
          /\ UNCHANGED history
    /\ UNCHANGED <<pc, timer, aborted, inputs, pure, loading, messagePromise, composing, seedPromise,
                   generating, systemWrite, status, respBody, messages>>

\* lines 158-169: prismadb.companion.update(...) settles.
SystemTurnSettle(r) ==
    /\ IsPending(systemWrite[r])
    /\ \/ /\ systemWrite' = [systemWrite EXCEPT ![r] = Fulfilled(<<"updated">>)]
          /\ messages' = Append(messages, SystemTurn(finalResponse[r], user[r], chatId[r]))
       \/ /\ systemWrite' = [systemWrite EXCEPT ![r] = Rejected]
          /\ UNCHANGED messages
    /\ UNCHANGED <<pc, timer, aborted, inputs, pure, loading, messagePromise, composing, seedPromise,
                   generating, historyWrite, status, respBody, history>>

\* lines 156-170 with 181-185: Promise.all of the two writes rejects.
PersistingRejected(r) ==
    /\ pc[r] = "persisting"
    /\ AllRejects(<<historyWrite[r], systemWrite[r]>>)
    /\ Catch(r)
    /\ UNCHANGED <<inputs, pure, loading, messagePromise, composing, seedPromise, generating,
                   persisting, stores>>

\* Only the history write awaited before the response.
PersistedHistoryOnly(r) == IsFulfilled(historyWrite[r])
\* lines 156-170: await Promise.all([writeToHistory, companion.update]) resolves.
Persisted(r) == AllResolves(<<historyWrite[r], systemWrite[r]>>)

\* lines 156-180: Promise.all of the two writes resolves; the response leaves.
PersistingResolved(r) ==
    /\ pc[r] = "persisting"
    /\ Persisted(r)
    /\ Return(r, 200, finalResponse[r])
    /\ UNCHANGED <<inputs, pure, loading, messagePromise, composing, seedPromise, generating,
                   persisting, stores>>

\* The steps of the handler run of request r and of the calls it has issued.
Handler(r) ==
    \/ Start(r)
    \/ TimerFire(r)
    \/ Admit(r)
    \/ RateLimitSettle(r)
    \/ CompanionSettle(r)
    \/ GetInstanceSettle(r)
    \/ LoadingRejected(r)
    \/ LoadingResolved(r)
    \/ MessageCreateSettle(r)
    \/ ReadHistorySettle(r)
    \/ VectorSearchSettle(r)
    \/ ComposingRejected(r)
    \/ ComposingResolved(r)
    \/ SeedSettle(r)
    \/ AwaitMessage(r)
    \/ GenerationSettle(r)
    \/ HistoryWriteSettle(r)
    \/ SystemTurnSettle(r)
    \/ PersistingRejected(r)
    \/ PersistingResolved(r)

Next == \E r \in Reqs : Handler(r)

\* Requests interleaved in every way, from empty stores.
Spec == Init /\ [][Next]_vars

SoloNext == Handler(1)

\* A single request, on every store an earlier request can have left.
SoloSpec == SoloInit /\ [][SoloNext]_vars

\* ---------------------------------------------- the scorer run on its own
\* Every pair of texts the scorer can be handed, before the call.
ScorerInit ==
    /\ NoRequestYet
    /\ messages = << >>
    /\ history = [k \in Keys |-> << >>]
    /\ \E m \in SimTexts, p \in SimTexts :
           scorer = [msg |-> m, prompt |-> p, called |-> FALSE, result |-> FALSE]
    /\ lookup = NoLookup

\* lines 95-96: analyzeMessageSimilarity(msg.content || '', prompt)
Score ==
    /\ ~scorer.called
    /\ scorer' = [scorer EXCEPT !.called = TRUE,
                                !.result = analyzeMessageSimilarity(scorer.msg, scorer.prompt)]
    /\ UNCHANGED <<pc, timer, aborted, inputs, loading, messagePromise, composing,
                   seedPromise, generating, persisting, status, respBody, stores, lookup>>

ScorerNext == Score

ScorerSpec == ScorerInit /\ [][ScorerNext]_vars

\* ------------------------------ the lookup and the transcript on their own
\* Another author of turns with the same companion.
OtherUser == "u2"
\* The k-th turn of a table: its content tells it from the others.
TurnText(k) == [i \in 1..k |-> "a"]
NextTurn(table, uid) ==
    LET k == Len(table) + 1
    IN  IF k % 2 = 1 THEN UserTurn(TurnText(k), uid, "c1")
        ELSE SystemTurn(TurnText(k), uid, "c1")

\* An empty message table, no lookup made.
LookupInit ==
    /\ NoRequestYet
    /\ messages = << >>
    /\ history = [k \in Keys |-> << >>]
    /\ scorer = NoScorerCall
    /\ lookup = NoLookup

\* lines 84-91 and 158-169 of earlier requests: a turn is added to the table,
\* in createdAt order.
AddTurn ==
    /\ ~lookup.looked
    /\ Len(lookup.table) < MaxTurns
    /\ \E uid \in Users \cup {OtherUser} :
           lookup' = [lookup EXCEPT !.table = Append(@, NextTurn(@, uid))]
    /\ UNCHANGED <<pc, timer, aborted, inputs, loading, messagePromise, composing,
                   seedPromise, generating, persisting, status, respBody, stores, scorer>>

\* lines 61-71 and 118-121: the lookup of u1 for c1 and the transcript made
\* of what it loaded.
Lookup ==
    /\ ~lookup.looked
    /\ LET recent == RecentTurns(lookup.table, "c1", "u1")
           c == FindCompanion("c1").row
       IN  lookup' = [lookup EXCEPT !.looked = TRUE,
                                    !.recent = recent,
                                    !.transcript = MessageHistory(recent, c)]
    /\ UNCHANGED <<pc, timer, aborted, inputs, loading, messagePromise, composing,
                   seedPromise, generating, persisting, status, respBody, stores, scorer>>

LookupNext == AddTurn \/ Lookup

LookupSpec == LookupInit /\ [][LookupNext]_vars

\* ================================================================ claims
Done(r) == pc[r] = "done"
RateLimitFailed(r) == IsFulfilled(rateLimitResult[r]) /\ ~rateLimitResult[r].val.success
LoadsResolved(r) == AllResolves(<<rateLimitResult[r], companion[r], memoryManager[r]>>)
NoWriteIssued(r) ==
    /\ ~IsIssued(messagePromise[r])
    /\ ~IsIssued(seedPromise[r])
    /\ ~IsIssued(historyWrite[r])
    /\ ~IsIssued(systemWrite[r])

\* C1: a request whose rate-limit check returned success=false never calls
\* replicate.run and issues no persistence write (user turn, history seed,
\* history append, system turn).
C1_AdmissionOrdering ==
    \A r \in Reqs : RateLimitFailed(r) => ~IsIssued(modelResponse[r]) /\ NoWriteIssued(r)

\* A rate-limited request has been answered 429.
C1_Witness ==
    \E r \in Reqs : RateLimitFailed(r) /\ Done(r) /\ status[r] = 429

\* C2: when the deadline timer fires while the generation call of the request
\* has not returned, that step aborts the call: it is no longer in flight (and
\* its rejection then fails the request with 500).
C2_DeadlineAborts ==
    [][\A r \in Reqs :
          (IsPending(modelResponse[r]) /\ timer[r] = "pending" /\ timer'[r] = "fired")
              => ~IsPending(modelResponse'[r])]_vars

\* C3: whenever a request has returned its response, its deadline timer is
\* not pending any more.
C3_TimerCleared ==
    \A r \in Reqs : Done(r) => timer[r] # "pending"

\* Nothing but the user-turn write of request r has failed.
OnlyUserTurnFailed(r) ==
    /\ IsRejected(messagePromise[r])
    /\ \A p \in {records[r], similarDocs[r], seedPromise[r], modelResponse[r],
                 historyWrite[r], systemWrite[r]} : ~IsRejected(p)

\* C4: a failure of the user-turn write alone never makes the response a 500
\* and never prevents the generation call.
C4_UserTurnDetached ==
    \A r \in Reqs :
        (Done(r) /\ OnlyUserTurnFailed(r)) => status[r] # 500 /\ IsIssued(modelResponse[r])

\* Request r has got past the memory reads of lines 107-110.
LeftComposing(r) ==
    /\ AllResolves(<<records[r], similarDocs[r]>>)
    /\ pc[r] # "composing"

\* C5: a request whose memory reads returned with an empty history issues the
\* seeding write (once, before it goes on); a request that started when the
\* history of its key was already non-empty issues no seeding write.
C5_SeedingIdempotence ==
    \A r \in Reqs :
        /\ (LeftComposing(r) /\ Len(records[r].val) = 0) => IsIssued(seedPromise[r])
        /\ historyAtStart[r] > 0 => ~IsIssued(seedPromise[r])

\* A first request has seeded the history and answered 200, and a later one,
\* started on the non-empty history, has answered 200 without seeding.
C5_Witness ==
    \E r1, r2 \in Reqs :
        /\ historyAtStart[r1] = 0 /\ IsFulfilled(seedPromise[r1]) /\ status[r1] = 200
        /\ historyAtStart[r2] > 0 /\ ~IsIssued(seedPromise[r2]) /\ status[r2] = 200

\* C6: when the first line of the generated text has length <= 1, the request
\* issues no history append and no system turn, and has returned 200.
C6_TrivialResponseSkip ==
    \A r \in Reqs :
        (IsFulfilled(modelResponse[r]) /\ Len(FirstLine(modelResponse[r].val)) <= 1)
            => /\ ~IsIssued(historyWrite[r])
               /\ ~IsIssued(systemWrite[r])
               /\ Done(r)
               /\ status[r] = 200

\* A one-character reply was generated and the request is over.
C6_Witness ==
    \E r \in Reqs :
        /\ IsFulfilled(modelResponse[r])
        /\ Len(FirstLine(modelResponse[r].val)) = 1
        /\ Done(r)

\* C7: when a request has returned 200 with a finalResponse longer than one
\* character, the history append and the creation of the system turn have both
\* completed successfully, and the system turn is in the message table.
C7_PersistBeforeRespond ==
    \A r \in Reqs :
        (status[r] = 200 /\ Len(finalResponse[r]) > 1)
            => /\ IsFulfilled(historyWrite[r])
               /\ IsFulfilled(systemWrite[r])
               /\ \E i \in 1..Len(messages) :
                      messages[i] = SystemTurn(finalResponse[r], user[r], chatId[r])

\* A request has returned 200 with a reply longer than one character.
C7_Witness ==
    \E r \in Reqs : status[r] = 200 /\ Len(finalResponse[r]) > 1

\* C8: the prompt handed to replicate.run holds the persona name and
\* instructions, the transcript, the user input, and the content of every
\* snippet vectorSearch returned.
C8_PromptAssembly ==
    \A r \in Reqs :
        IsIssued(modelResponse[r]) =>
            LET c == companion[r].val.row
                docs == similarDocs[r].val
            IN  /\ Contains(genPrompt[r], c.name)
                /\ Contains(genPrompt[r], c.instructions)
                /\ Contains(genPrompt[r], MessageHistory(companion[r].val.messages, c))
                /\ Contains(genPrompt[r], prompt[r])
                /\ \A i \in 1..Len(docs) : Contains(genPrompt[r], docs[i].pageContent)

\* C9: a request without caller identity is answered 401 whatever its body,
\* and performs no rate-limit check, lookup, write or generation call.
C9_Unauthorized ==
    \A r \in Reqs :
        (Done(r) /\ user[r] = NoUser)
            => /\ status[r] = 401
               /\ ~IsIssued(rateLimitResult[r])
               /\ ~IsIssued(companion[r])
               /\ ~IsIssued(modelResponse[r])
               /\ NoWriteIssued(r)

\* C10 as stated: an authenticated request whose rate-limit check returned
\* success=false is answered 429 whatever became of the companion lookup and
\* of the history-store acquisition; an admitted request whose lookup found no
\* companion is answered 404.
C10_RateLimitedWhatever ==
    \A r \in Reqs :
        Done(r) =>
            /\ RateLimitFailed(r) => status[r] = 429
            /\ (IsFulfilled(rateLimitResult[r]) /\ rateLimitResult[r].val.success
                /\ IsFulfilled(companion[r]) /\ CompanionMissing(companion[r].val))
                   => status[r] = 404

\* C10 as amended: when the three loads have all resolved, success=false is
\* answered 429 (companion found or not) and an admitted request without
\* companion 404; when one of the loads has thrown the answer is 500.
C10_RateLimitedWhenLoadsResolve ==
    \A r \in Reqs :
        Done(r) =>
            /\ (LoadsResolved(r) /\ RateLimitFailed(r)) => status[r] = 429
            /\ (LoadsResolved(r) /\ ~RateLimitFailed(r) /\ CompanionMissing(companion[r].val))
                   => status[r] = 404
            /\ AllRejects(<<rateLimitResult[r], companion[r], memoryManager[r]>>)
                   => status[r] = 500

\* A rate-limited request for an unknown companion was answered 429.
C10_Witness ==
    \E r \in Reqs :
        /\ LoadsResolved(r) /\ RateLimitFailed(r) /\ CompanionMissing(companion[r].val)
        /\ status[r] = 429

\* s is an initial part of t.
IsPrefix(s, t) == Len(s) <= Len(t) /\ SubSeq(t, 1, Len(s)) = s

\* The step is the catch block of request r (lines 181-185) answering 500.
CatchStep(r) == pc[r] # "done" /\ pc'[r] = "done" /\ status'[r] = 500

\* C11: the catch block, the firing of the deadline timer and the settling of
\* the generation call leave the message table and the history store as they
\* are, and no step takes an applied write back: both stores only grow.
C11_NoRollback ==
    [][/\ \A r \in Reqs :
             (CatchStep(r) \/ timer'[r] # timer[r] \/ modelResponse'[r] # modelResponse[r])
                 => (messages' = messages /\ history' = history)
       /\ IsPrefix(messages, messages')
       /\ \A k \in Keys : IsPrefix(history[k], history'[k])]_vars

\* The generation call failed after the user turn was written and the history
\* seeded; the request was answered 500 and both writes are in the stores.
C11_Witness ==
    \E r \in Reqs :
        /\ IsRejected(modelResponse[r]) /\ status[r] = 500
        /\ IsFulfilled(messagePromise[r]) /\ IsFulfilled(seedPromise[r])
        /\ \E i \in 1..Len(messages) : messages[i] = UserTurn(prompt[r], user[r], chatId[r])
        /\ \E i \in 1..Len(history[KeyOf(r)]) :
               history[KeyOf(r)][i] = companion[r].val.row.seed

\* The tokens of a text, read off its characters: a token starts where a
\* non-space follows the start of the text or a space, and runs to the next
\* space.
TokenStarts(s) == {i \in 1..Len(s) : s[i] # SP /\ (i = 1 \/ s[i - 1] = SP)}
TokenEnd(s, i) == CHOOSE j \in i..Len(s) :
                      /\ \A k \in i..j : s[k] # SP
                      /\ (j = Len(s) \/ s[j + 1] = SP)
LowerToken(s, i) == [k \in 1..(TokenEnd(s, i) - i + 1) |->
                        IF s[i + k - 1] = "A" THEN "a" ELSE s[i + k - 1]]
TokenSet(s) == {LowerToken(s, i) : i \in TokenStarts(s)}
TokenCount(s, w) == Cardinality({i \in TokenStarts(s) : LowerToken(s, i) = w})
NumTokens(s) == Cardinality(TokenStarts(s))
SharedTokens(a, b) == TokenSet(a) \cap TokenSet(b)
\* Sum over the shared tokens of the smaller of the two counts.
SumOfMinCounts(a, b) ==
    Cardinality({e \in SharedTokens(a, b) \X (1..MaxSimLen) :
                    e[2] <= TokenCount(a, e[1]) /\ e[2] <= TokenCount(b, e[1])})
MostTokens(a, b) == IF NumTokens(a) > NumTokens(b) THEN NumTokens(a) ELSE NumTokens(b)
OverSixTenths(a, b) == MostTokens(a, b) > 0 /\ 10 * SumOfMinCounts(a, b) > 6 * MostTokens(a, b)

\* C12: the scorer answers true exactly when the sum over the shared
\* lower-cased tokens of the smaller count, divided by the larger number of
\* tokens, exceeds 0.6; an empty candidate gives false, a text with a token
\* compared with itself gives true, two texts sharing no token give false.
C12_SimilarityScorer ==
    scorer.called =>
        /\ scorer.result = OverSixTenths(scorer.msg, scorer.prompt)
        /\ (scorer.msg = << >> => ~scorer.result)
        /\ (scorer.msg = scorer.prompt /\ NumTokens(scorer.msg) >= 1 => scorer.result)
        /\ (SharedTokens(scorer.msg, scorer.prompt) = {} => ~scorer.result)

\* Two different texts with two of three tokens in common (2/3 > 0.6), one
\* of them shared only through lower-casing, scored as similar.
C12_Witness ==
    /\ scorer.called /\ scorer.result
    /\ scorer.msg = <<"a", SP, "a", SP, "a">>
    /\ scorer.prompt = <<"A", SP, "a">>

\* C13: finalResponse is the part of the generated text before its first
\* newline (the whole text when it has none), so it holds no newline, and the
\* body of a 200 response is finalResponse.
C13_ResponseTruncation ==
    \A r \in Reqs :
        IsFulfilled(modelResponse[r]) =>
            LET t == modelResponse[r].val
                f == finalResponse[r]
            IN  /\ \A i \in 1..Len(f) : f[i] # NL
                /\ IsPrefix(f, t)
                /\ Len(f) = Len(t) \/ t[Len(f) + 1] = NL
                /\ status[r] = 200 => respBody[r] = f

\* A generated text with a newline after its first character, answered 200
\* with that first character alone.
C13_Witness ==
    \E r \in Reqs :
        /\ IsFulfilled(modelResponse[r]) /\ modelResponse[r].val = <<"a", NL>>
        /\ status[r] = 200 /\ respBody[r] = <<"a">>

\* C14: a request is past the loading step only when none of the three loads
\* is pending, and past the composing step only when neither the history read
\* nor the vector search is pending; so no response leaves while one of them
\* is in flight.
C14_JoinSemantics ==
    \A r \in Reqs :
        /\ pc[r] \notin {"idle", "admitting", "loading"} =>
               /\ ~IsPending(rateLimitResult[r])
               /\ ~IsPending(companion[r])
               /\ ~IsPending(memoryManager[r])
        /\ pc[r] \notin {"idle", "admitting", "loading", "composing"} =>
               /\ ~IsPending(records[r])
               /\ ~IsPending(similarDocs[r])

\* The seed entries stored for a key.
SeedEntries(k) ==
    {i \in 1..Len(history[k]) : \E c \in CompanionRows : history[k][i] = c.seed}

\* C15 as stated: under every interleaving of requests for one key, a seeding
\* write is applied only to a history that is empty at that moment, so a key
\* holds the seed at most once.
C15_SeedOnEmptyOnly ==
    [][\A r \in Reqs :
           (IsPending(seedPromise[r]) /\ IsFulfilled(seedPromise'[r])) =>
               /\ history[KeyOf(r)] = << >>
               /\ Cardinality(SeedEntries(KeyOf(r)))' <= 1]_vars

\* C15, amended: a seeding write is issued only by a request whose own read of
\* the history returned empty, each request seeds at most once, and a key
\* holds one seed entry per request that seeded it (so two when two requests
\* read it empty before either wrote).
C15_SeedAfterEmptyRead ==
    /\ \A r \in Reqs :
           IsIssued(seedPromise[r]) => IsFulfilled(records[r]) /\ records[r].val = << >>
    /\ \A k \in Keys :
           Cardinality(SeedEntries(k)) =
               Cardinality({r \in Reqs : IsFulfilled(seedPromise[r]) /\ KeyOf(r) = k})

\* Two requests for one key have both read it empty and both written the seed.
C15_Witness ==
    \E r1, r2 \in Reqs :
        /\ r1 # r2
        /\ IsFulfilled(seedPromise[r1]) /\ IsFulfilled(seedPromise[r2])
        /\ KeyOf(r1) = KeyOf(r2)
        /\ records[r1].val = << >> /\ records[r2].val = << >>
        /\ Cardinality(SeedEntries(KeyOf(r1))) = 2

\* C16: when a request has called the generation service, the history of its
\* key is non-empty: the request read it non-empty, or its seeding write
\* completed before the call.
C16_HistoryNonEmpty ==
    \A r \in Reqs :
        IsIssued(modelResponse[r]) =>
            /\ Len(history[KeyOf(r)]) > 0
            /\ Len(records[r].val) > 0 \/ IsFulfilled(seedPromise[r])

\* A request that found the history of its key empty has seeded it and is
\* waiting for the generation service.
C16_Witness ==
    \E r \in Reqs :
        /\ IsPending(modelResponse[r])
        /\ records[r].val = << >> /\ IsFulfilled(seedPromise[r])
        /\ history[KeyOf(r)] = <<companion[r].val.row.seed>>

\* The places in the table of the turns of u1 with c1, and the ten (or
\* fewer) latest of them.
OwnPlaces(table) ==
    {i \in 1..Len(table) : table[i].userId = "u1" /\ table[i].companionId = "c1"}
LatestPlaces(table) ==
    {i \in OwnPlaces(table) : Cardinality({j \in OwnPlaces(table) : j > i}) < 10}
\* The k-th earliest of a set of places.
PlaceNo(places, k) == CHOOSE i \in places : Cardinality({j \in places : j <= i}) = k

\* C17: the transcript holds at most 10 turns, they are the latest turns of
\* the requesting user with the companion at the time of the lookup, and they
\* stand oldest first, the reverse of the order they were loaded in.
C17_BoundedTranscript ==
    lookup.looked =>
        LET late == LatestPlaces(lookup.table)
            n == Cardinality(late)
            c == CHOOSE row \in CompanionRows : row.id = "c1"
        IN  /\ n <= 10
            /\ Len(lookup.recent) = n
            /\ \A k \in 1..n : lookup.recent[k] = lookup.table[PlaceNo(late, n + 1 - k)]
            /\ lookup.transcript =
                   Join([k \in 1..n |-> TurnLine(lookup.table[PlaceNo(late, k)], c)], <<NL>>)

\* Eleven turns of u1 and one of another user in between: the lookup loaded
\* ten, leaving out the oldest of u1 and the other user's.
C17_Witness ==
    /\ lookup.looked
    /\ Len(lookup.table) = 12
    /\ Cardinality(OwnPlaces(lookup.table)) = 11
    /\ lookup.table[5].userId = OtherUser
    /\ Len(lookup.recent) = 10
    /\ lookup.recent[1] = lookup.table[12] /\ lookup.recent[10] = lookup.table[2]

\* C18: in every final state of a request (answered, no write of it in
\* flight) the history append of its response has been applied exactly when
\* its system turn has been created.
C18_BothOrNeither ==
    \A r \in Reqs :
        (Done(r) /\ ~IsPending(historyWrite[r]) /\ ~IsPending(systemWrite[r])) =>
            (IsFulfilled(historyWrite[r]) <=> IsFulfilled(systemWrite[r]))

\* The response part of a history entry appended by the handler: what follows
\* "User: ", the prompt and the newline.
IsAppendedEntry(e) == \E p \in Prompts : IsPrefix(<<"User: ">> \o p \o <<NL>>, e)
ResponsePart(e) ==
    LET p == CHOOSE q \in Prompts : IsPrefix(<<"User: ">> \o q \o <<NL>>, e)
    IN  SubSeq(e, Len(p) + 3, Len(e))

\* C19: every stored system turn, and the response part of every history
\* entry, is longer than one character.
C19_StoredRepliesLong ==
    /\ \A i \in 1..Len(messages) :
           messages[i].role = "system" => Len(messages[i].content) > 1
    /\ \A k \in Keys : \A i \in 1..Len(history[k]) :
           IsAppendedEntry(history[k][i]) => Len(ResponsePart(history[k][i])) > 1

\* C20: the system turn of a request is issued only after its user-turn write
\* has completed successfully, so the reply is never stored before or without
\* the request's own user turn, and the two writes are never in flight
\* together.
C20_TurnOrdering ==
    \A r \in Reqs :
        /\ IsIssued(systemWrite[r]) => IsFulfilled(messagePromise[r])
        /\ ~(IsPending(messagePromise[r]) /\ IsPending(systemWrite[r]))
        /\ IsFulfilled(systemWrite[r]) =>
               \E i, j \in 1..Len(messages) :
                   /\ i < j
                   /\ messages[i] = UserTurn(prompt[r], user[r], chatId[r])
                   /\ messages[j] = SystemTurn(finalResponse[r], user[r], chatId[r])

\* On an empty table a request has stored its user turn and then its reply,
\* and was answered 200.
C20_Witness ==
    \E r \in Reqs :
        /\ status[r] = 200
        /\ IsFulfilled(messagePromise[r]) /\ IsFulfilled(systemWrite[r])
        /\ Len(messages) = 2
        /\ messages[1].role = "user" /\ messages[2].role = "system"

====
